---- MODULE Spec2Model ----
(***************************************************************************)
(* Persona-driven PDF section ranking (Challenge_1b/run_analysis.py).      *)
(*                                                                         *)
(* A text is a sequence of one-character strings.  A document, as the      *)
(* document reader (fitz) hands it over, is the sequence of its pages' raw *)
(* texts; page.number is 0-based.  The similarity of a candidate to the    *)
(* query is a number 0..MaxScore supplied by the text encoder; only the    *)
(* order and the ties of the similarities matter to the ranking.           *)
(***************************************************************************)
EXTENDS Integers, Sequences, FiniteSets, TLC

VARIABLES
    pc,         \* position of main(): load, encode_query, extract (the document
                \* loop, then the section ranking), rank_sentences (the section
                \* loop, then the write), done, aborted; idle outside a run
    raised,     \* the call whose exception ended the run, or "none"
    args,       \* parse_args(): top_sections, top_sentences
    cfg,        \* the parsed run configuration, None before load_config
    docs, persona, job, query,
    q_emb,      \* the query embedding (the text it encodes), None before
    doc_i,      \* number of entries of docs the extraction loop has handled
    all_secs,   \* candidate units of all documents, in order
    ranked,     \* 0-based indices of the selected sections, in rank order
    out_secs,   \* output entries built so far
    output,     \* the output artifact on disk, None while not written
    call,       \* a function applied on its own: its name and arguments
    ret         \* its return value, None before the call returns

vars == <<pc, raised, args, cfg, docs, persona, job, query, q_emb, doc_i,
          all_secs, ranked, out_secs, output, call, ret>>

runVars == <<pc, raised, args, cfg, docs, persona, job, query, q_emb, doc_i,
             all_secs, ranked, out_secs, output>>

----------------------------------------------------------------------------
(* Bounds of the model *)

MaxK == 2          \* requested counts range over -MaxK..MaxK
MaxScore == 1      \* similarities range over 0..MaxScore
MaxCand == 3       \* candidates of a ranking step applied on its own
MaxDocs == 2       \* length of the configuration's documents list
MaxPages == 3      \* pages of a document given to extract_page_sections
MaxPageLen == 2    \* characters of such a page
MaxLen == 4        \* characters of a text given to split_sentences

Min(a, b) == IF a <= b THEN a ELSE b
Max(a, b) == IF a >= b THEN a ELSE b

\* an optional value: None, or Some(x) holding x
None == <<>>
Some(x) == <<x>>

----------------------------------------------------------------------------
(* Text helpers *)

\* str.isspace(), which both str.strip() and the regex class \s use
IsSpace(c) == c \in {" ", "\n", "\t"}

\* the lookbehind class [\.\?\!] of SECTION_SPLIT_RE
IsSentenceEndOnlyDot(c) == c = "."
IsSentenceEnd(c) == c \in {".", "?", "!"}

RECURSIVE LStrip(_)
LStrip(s) ==
    IF s = <<>> THEN <<>>
    ELSE IF IsSpace(Head(s)) THEN LStrip(Tail(s)) ELSE s

RECURSIVE RStrip(_)
RStrip(s) ==
    IF s = <<>> THEN <<>>
    ELSE IF IsSpace(s[Len(s)]) THEN RStrip(SubSeq(s, 1, Len(s) - 1)) ELSE s

\* str.strip()
Strip(s) == RStrip(LStrip(s))

\* first position >= p of text that holds no whitespace (Len(text)+1 if none):
\* where the greedy \s+ that starts at p stops
RECURSIVE RunEnd(_, _)
RunEnd(text, p) ==
    IF p <= Len(text) /\ IsSpace(text[p]) THEN RunEnd(text, p + 1) ELSE p

\* SECTION_SPLIT_RE.split(text): scan for the leftmost match at or after p;
\* last is where the piece being collected starts
RECURSIVE ReSplit(_, _, _)
ReSplit(text, last, p) ==
    IF p > Len(text) THEN <<SubSeq(text, last, Len(text))>>
    ELSE IF p > 1 /\ IsSentenceEnd(text[p - 1]) /\ IsSpace(text[p])
         THEN <<SubSeq(text, last, p - 1)>>
                \o ReSplit(text, RunEnd(text, p), RunEnd(text, p))
         ELSE ReSplit(text, last, p + 1)

split_sentences(text) ==
    SelectSeq(ReSplit(text, 1, 1), LAMBDA s : Strip(s) # <<>>)

----------------------------------------------------------------------------
(* Unit extraction *)

\* os.path.join(pdfdir, fn) and os.path.basename(path); a path is the
\* sequence of its components
JoinPath(dir, fn) == dir \o fn
Basename(path) == path[Len(path)]

\* the loop of extract_page_sections from page i on; page.number = i - 1
RECURSIVE SectionsFrom(_, _, _)
SectionsFrom(pdf_path, doc, i) ==
    IF i > Len(doc) THEN <<>>
    ELSE LET text == Strip(doc[i])
             number == i - 1
         IN (IF text = <<>> THEN <<>>
             ELSE <<[document |-> Basename(pdf_path),
                     page     |-> number + 1,
                     title    |-> "Page " \o ToString(number + 1),
                     text     |-> text]>>)
            \o SectionsFrom(pdf_path, doc, i + 1)

\* a plausible slip: the locator counts the emitted units
RECURSIVE SectionsRenumbered(_, _, _, _)
SectionsRenumbered(pdf_path, doc, i, n) ==
    IF i > Len(doc) THEN <<>>
    ELSE LET text == Strip(doc[i])
         IN IF text = <<>> THEN SectionsRenumbered(pdf_path, doc, i + 1, n)
            ELSE <<[document |-> Basename(pdf_path),
                    page     |-> n + 1,
                    title    |-> "Page " \o ToString(n + 1),
                    text     |-> text]>>
                 \o SectionsRenumbered(pdf_path, doc, i + 1, n + 1)

extract_page_sections_renumbered(pdf_path, doc) ==
    SectionsRenumbered(pdf_path, doc, 1, 0)

extract_page_sections(pdf_path, doc) == SectionsFrom(pdf_path, doc, 1)

----------------------------------------------------------------------------
(* Ranking *)

\* the orders scores.argsort(descending=True).tolist() can return: argsort is
\* called without stable=True, so candidates of equal score come in any order
ArgsortDescending(scores) ==
    LET N == Len(scores)
    IN {p \in [1..N -> 0..(N - 1)] :
          /\ \A i, j \in 1..N : i # j => p[i] # p[j]
          /\ \A i, j \in 1..N : i < j => scores[p[i] + 1] >= scores[p[j] + 1]}

\* lst[:k]
PySliceTo(lst, k) ==
    IF k >= 0 THEN SubSeq(lst, 1, Min(k, Len(lst)))
    ELSE SubSeq(lst, 1, Max(Len(lst) + k, 0))

\* scores.argsort(descending=True).tolist()[:k]
TopK(scores, k) == {PySliceTo(p, k) : p \in ArgsortDescending(scores)}

ScoreSeqs(N) == [1..N -> 0..MaxScore]
TopCounts == (0 - MaxK)..MaxK

----------------------------------------------------------------------------
(* The run: main() *)

\* inputs a run can meet
DocName(i) == <<"doc" \o ToString(i) \o ".pdf">>
DocumentLists == {[i \in 1..n |-> DocName(i)] : n \in 0..MaxDocs}

CfgKeys == {"documents", "persona", "job"}
Configs ==
    {[k \in K |-> CASE k = "documents" -> d
                    [] k = "persona" -> "Analyst"
                    [] k = "job" -> "Summarize risks"] :
        K \in SUBSET CfgKeys, d \in DocumentLists}

Blank == <<" ">>
TextAB == <<"a", ".", " ", "b", "?">>
TextC == <<" ", "c", "!", "\n">>
SampleDocs == {<<>>, <<Blank>>, <<TextAB>>, <<Blank, TextC>>}

Clock == {"2025-07-28T10:15:00", "2025-07-28T10:15:00.250000"}

\* cfg.get(key, default)
\* (a slip: cfg.get(key) for the strings, whose None is formatted "None")
CfgGetNoDefault(c, key, default) ==
    IF key \in DOMAIN c THEN c[key]
    ELSE IF key = "documents" THEN default ELSE "None"
CfgGet(c, key, default) ==
    IF key \in DOMAIN c THEN c[key] ELSE default

\* f"{persona}. {job}"
BuildQuery(p, j) == p \o ". " \o j

\* enumerate(ranked, start=1): the rank of the entry at (1-based) position pos
EnumerateStart == 1
RankByIndex(pos, idx) == idx + 1
RankAt(pos, idx) == EnumerateStart + (pos - 1)

\* sec = all_secs[idx]
SectionOfRank(secs, idx, rank) == secs[rank]
SelectedSection(secs, idx, rank) == secs[idx + 1]

\* the entry of one selected section, with its top sentences
SectionEntry(sec, rank, sents, top_sidx) ==
    [document             |-> sec.document,
     page_number          |-> sec.page,
     section_title        |-> sec.title,
     importance_rank      |-> rank,
     sub_section_analysis |->
         [n \in 1..Len(top_sidx) |->
             [refined_text |-> sents[top_sidx[n] + 1],
              page_number  |-> sec.page]]]

\* the result dictionary
Result(ds, p, j, now, secs) ==
    [metadata |-> [documents      |-> ds,
                   persona        |-> p,
                   job_to_be_done |-> j,
                   timestamp      |-> now \o "Z"],
     extracted_sections |-> secs]

\* an exception nobody catches ends main(); a slip would be to dump what
\* has been built so far on the way out
RaiseAfterDump(site) ==
    /\ pc' = "aborted"
    /\ raised' = site
    /\ output' = Some(Result(docs, persona, job, "2025-07-28T10:15:00", out_secs))
Raise(site) ==
    /\ pc' = "aborted"
    /\ raised' = site
    /\ output' = output

IdleCall == call = None /\ ret = None

InitRun ==
    /\ pc = "load"
    /\ raised = "none"
    /\ args \in [pdf_dir : {<<"pdfs">>},
                 top_sections : TopCounts, top_sentences : TopCounts]
    /\ cfg = None
    /\ docs = <<>> /\ persona = "" /\ job = "" /\ query = ""
    /\ q_emb = None
    /\ doc_i = 0
    /\ all_secs = <<>>
    /\ ranked = <<>>
    /\ out_secs = <<>>
    /\ output = None

Init == InitRun /\ IdleCall

\* cfg = load_config(args.config) and the reads of its fields
LoadConfig ==
    /\ pc = "load"
    /\ \/ /\ Raise("load_config")
          /\ UNCHANGED <<cfg, docs, persona, job, query>>
       \/ \E c \in Configs :
            /\ cfg' = Some(c)
            /\ docs' = CfgGet(c, "documents", <<>>)
            /\ persona' = CfgGet(c, "persona", "")
            /\ job' = CfgGet(c, "job", "")
            /\ query' = BuildQuery(persona', job')
            /\ pc' = "encode_query"
            /\ UNCHANGED <<raised, output>>
    /\ UNCHANGED <<args, q_emb, doc_i, all_secs, ranked, out_secs, call, ret>>

\* model = SentenceTransformer(...); q_emb = model.encode(query, ...)
EncodeQuery ==
    /\ pc = "encode_query"
    /\ \/ /\ Raise("encode_query")
          /\ UNCHANGED q_emb
       \/ /\ q_emb' = Some(query)
          /\ pc' = "extract"
          /\ UNCHANGED <<raised, output>>
    /\ UNCHANGED <<args, cfg, docs, persona, job, query, doc_i, all_secs,
                   ranked, out_secs, call, ret>>

\* one round of: for fn in docs
ExtractDocument ==
    /\ pc = "extract"
    /\ doc_i < Len(docs)
    /\ LET fn == docs[doc_i + 1]
           path == JoinPath(args.pdf_dir, fn)
       IN \/ /\ doc_i' = doc_i + 1          \* os.path.exists(path) is false
             /\ UNCHANGED <<pc, raised, output, all_secs>>
          \/ \E doc \in SampleDocs :
               /\ all_secs' = all_secs \o extract_page_sections(path, doc)
               /\ doc_i' = doc_i + 1
               /\ UNCHANGED <<pc, raised, output>>
          \/ /\ Raise("document_reader")    \* fitz.open or get_text raises
             /\ UNCHANGED <<doc_i, all_secs>>
    /\ UNCHANGED <<args, cfg, docs, persona, job, query, q_emb, ranked,
                   out_secs, call, ret>>

\* texts, sec_embs, scores, ranked.  model.encode of an empty list yields no
\* batch of vectors (torch.stack of nothing raises; newer encoders return a
\* 1-d empty tensor, which cos_sim cannot multiply with the query): the
\* ranking of an empty candidate list raises
RankSections ==
    /\ pc = "extract"
    /\ doc_i = Len(docs)
    /\ \/ /\ all_secs = <<>>
          /\ Raise("empty_batch")
          /\ UNCHANGED ranked
       \/ /\ all_secs # <<>>
          /\ Raise("encode_sections")
          /\ UNCHANGED ranked
       \/ /\ all_secs # <<>>
          /\ \E scores \in ScoreSeqs(Len(all_secs)) :
               ranked' \in TopK(scores, args.top_sections)
          /\ pc' = "rank_sentences"
          /\ UNCHANGED <<raised, output>>
    /\ UNCHANGED <<args, cfg, docs, persona, job, query, q_emb, doc_i,
                   all_secs, out_secs, call, ret>>

\* one round of: for rank, idx in enumerate(ranked, start=1)
RankSentences ==
    /\ pc = "rank_sentences"
    /\ Len(out_secs) < Len(ranked)
    /\ LET pos == Len(out_secs) + 1
           idx == ranked[pos]
           rank == RankAt(pos, idx)
           sec == SelectedSection(all_secs, idx, rank)
           sents == split_sentences(sec.text)
       IN \/ /\ Raise(IF sents = <<>> THEN "empty_batch" ELSE "encode_sentences")
             /\ UNCHANGED out_secs
          \/ /\ sents # <<>>
             /\ \E sent_scores \in ScoreSeqs(Len(sents)) :
                  \E top_sidx \in TopK(sent_scores, args.top_sentences) :
                     out_secs' =
                        Append(out_secs, SectionEntry(sec, rank, sents, top_sidx))
             /\ UNCHANGED <<pc, raised, output>>
    /\ UNCHANGED <<args, cfg, docs, persona, job, query, q_emb, doc_i,
                   all_secs, ranked, call, ret>>

\* result, os.makedirs, open, json.dump
WriteOutput ==
    /\ pc = "rank_sentences"
    /\ Len(out_secs) = Len(ranked)
    /\ \/ Raise("write_output")
       \/ \E now \in Clock :
            /\ output' = Some(Result(docs, persona, job, now, out_secs))
            /\ pc' = "done"
            /\ UNCHANGED raised
    /\ UNCHANGED <<args, cfg, docs, persona, job, query, q_emb, doc_i,
                   all_secs, ranked, out_secs, call, ret>>

Next ==
    \/ LoadConfig
    \/ EncodeQuery
    \/ ExtractDocument
    \/ RankSections
    \/ RankSentences
    \/ WriteOutput

Spec == Init /\ [][Next]_vars

----------------------------------------------------------------------------
(* The functions applied on their own, outside a run *)

IdleRun ==
    /\ pc = "idle"
    /\ raised = "none"
    /\ args = [pdf_dir |-> <<"pdfs">>, top_sections |-> 5, top_sentences |-> 3]
    /\ cfg = None
    /\ docs = <<>> /\ persona = "" /\ job = "" /\ query = ""
    /\ q_emb = None
    /\ doc_i = 0
    /\ all_secs = <<>>
    /\ ranked = <<>>
    /\ out_secs = <<>>
    /\ output = None

\* all sequences over S of length at most n
SeqsUpTo(S, n) == UNION {[1..m -> S] : m \in 0..n}

\* -- the ranking step: scores.argsort(descending=True).tolist()[:k]
RankCalls ==
    {[fn |-> "rank", scores |-> sc, k |-> k] :
        sc \in UNION {ScoreSeqs(N) : N \in 1..MaxCand}, k \in TopCounts}

InitRank == IdleRun /\ call \in {Some(c) : c \in RankCalls} /\ ret = None

RankReturns ==
    /\ call # None /\ call[1].fn = "rank" /\ ret = None
    /\ \E r \in TopK(call[1].scores, call[1].k) : ret' = Some(r)
    /\ UNCHANGED <<call, runVars>>

SpecRank == InitRank /\ [][RankReturns]_vars

\* -- extract_page_sections(pdf_path)
PageChars == {"a", " "}
PageTexts == SeqsUpTo(PageChars, MaxPageLen)
ExtractCalls ==
    {[fn |-> "extract_page_sections",
      pdf_path |-> JoinPath(<<"pdfs">>, DocName(1)), doc |-> d] :
        d \in SeqsUpTo(PageTexts, MaxPages)}

InitExtract == IdleRun /\ call \in {Some(c) : c \in ExtractCalls} /\ ret = None

ExtractReturns ==
    /\ call # None /\ call[1].fn = "extract_page_sections" /\ ret = None
    /\ ret' = Some(extract_page_sections(call[1].pdf_path, call[1].doc))
    /\ UNCHANGED <<call, runVars>>

SpecExtract == InitExtract /\ [][ExtractReturns]_vars

\* -- split_sentences(text)
SplitChars == {"a", ".", "?", "!", " ", "\n"}
HelloText ==
    <<"H", "e", "l", "l", "o", " ", "w", "o", "r", "l", "d", ".", " ",
    "T", "h", "i", "s", " ", "i", "s", " ", "a", " ", "t", "e", "s", "t",
    "!", " ", "I", "s", " ", "i", "t", " ", "w", "o", "r", "k", "i", "n",
    "g", "?">>
SplitCalls ==
    {[fn |-> "split_sentences", text |-> t] :
        t \in SeqsUpTo(SplitChars, MaxLen) \cup {HelloText}}

InitSplit == IdleRun /\ call \in {Some(c) : c \in SplitCalls} /\ ret = None

SplitReturns ==
    /\ call # None /\ call[1].fn = "split_sentences" /\ ret = None
    /\ ret' = Some(split_sentences(call[1].text))
    /\ UNCHANGED <<call, runVars>>

SpecSplit == InitSplit /\ [][SplitReturns]_vars

----------------------------------------------------------------------------
(* Properties of the ranking step (SpecRank) *)

Range(f) == {f[i] : i \in DOMAIN f}
Distinct(f) == \A i, j \in DOMAIN f : i # j => f[i] # f[j]

\* C1: for every non-empty candidate list of size N and every requested count
\* K, the ranking step returns exactly min(K, N) indices, pairwise distinct
\* and all in 0..N-1.  (A number of indices is not negative: for K < 0 the
\* count is read as none, as for K = 0.)
C1_ReturnsMinKN ==
    ret # None =>
        LET r == ret[1]
            N == Len(call[1].scores)
            K == call[1].k
        IN /\ Len(r) = Max(Min(K, N), 0)
           /\ Distinct(r)
           /\ Range(r) \subseteq 0..(N - 1)

\* C4: the ranking step returns the indices by descending similarity, and of
\* two candidates of equal similarity the one earlier in the candidate list
\* comes first: the result is a prefix of the stable descending sort.
C4_StableDescendingPrefix ==
    ret # None =>
        LET r == ret[1]
            sc == call[1].scores
            Before(a, b) == \/ sc[a + 1] > sc[b + 1]
                            \/ sc[a + 1] = sc[b + 1] /\ a < b
        IN /\ \A i, j \in 1..Len(r) : i < j => Before(r[i], r[j])
           /\ \A i \in 1..Len(r) :
                \A c \in (0..(Len(sc) - 1)) \ Range(r) : Before(r[i], c)

----------------------------------------------------------------------------
(* Properties of extract_page_sections (SpecExtract) *)

HasText(t) == \E j \in 1..Len(t) : t[j] \notin {" ", "\n", "\t"}

\* C6: extract_page_sections emits, in page order, exactly one unit for each
\* page whose trimmed text is non-empty and none for a blank page; a unit
\* keeps the page's 1-based index as its locator, is titled "Page {locator}"
\* and has non-empty (trimmed) text.  Pages 1 and 3 with text and page 2 blank
\* give exactly the units of locators 1 and 3.
C6_OneUnitPerTextPage ==
    ret # None =>
        LET doc == call[1].doc
            units == ret[1]
            kept == {i \in 1..Len(doc) : HasText(doc[i])}
        IN /\ Len(units) = Cardinality(kept)
           /\ \A n \in 1..Len(units) :
                /\ units[n].page \in kept
                /\ units[n].title = "Page " \o ToString(units[n].page)
                /\ units[n].text # <<>>
                /\ HasText(units[n].text)
                /\ ~IsSpace(units[n].text[1])
                /\ ~IsSpace(units[n].text[Len(units[n].text)])
                /\ \E a, b \in 0..Len(doc[units[n].page]) :
                     doc[units[n].page]
                       = [j \in 1..a |-> " "] \o units[n].text \o [j \in 1..b |-> " "]
           /\ \A n, m \in 1..Len(units) : n < m => units[n].page < units[m].page
           /\ (Len(doc) = 3 /\ kept = {1, 3}) =>
                /\ Len(units) = 2
                /\ units[1].page = 1 /\ units[1].title = "Page 1"
                /\ units[2].page = 3 /\ units[2].title = "Page 3"

C6_Witness ==
    /\ ret # None
    /\ call[1].fn = "extract_page_sections"
    /\ call[1].doc = << <<"a">>, <<" ">>, <<" ", "a">> >>
    /\ Len(ret[1]) = 2
    /\ ret[1][2].page = 3 /\ ret[1][2].text = <<"a">>

----------------------------------------------------------------------------
(* Properties of split_sentences (SpecSplit) *)

RECURSIVE Flatten(_)
Flatten(ss) == IF ss = <<>> THEN <<>> ELSE Head(ss) \o Flatten(Tail(ss))

EndsSentence(c) == c \in {".", "?", "!"}
White(c) == c \in {" ", "\n", "\t"}

\* position i of text lies in a run of whitespace that immediately follows
\* a '.', '?' or '!'
Consumed(text, i) ==
    /\ White(text[i])
    /\ \E j \in 1..(i - 1) :
         EndsSentence(text[j]) /\ \A k \in (j + 1)..i : White(text[k])

\* text without the whitespace consumed by the breaks
WithoutBreaks(text) ==
    LET at == SelectSeq([i \in 1..Len(text) |-> i],
                        LAMBDA i : ~Consumed(text, i))
    IN [n \in 1..Len(at) |-> text[at[n]]]

HelloSentences ==
    << <<"H", "e", "l", "l", "o", " ", "w", "o", "r", "l", "d", ".">>,
       <<"T", "h", "i", "s", " ", "i", "s", " ", "a", " ", "t", "e", "s",
       "t", "!">>,
       <<"I", "s", " ", "i", "t", " ", "w", "o", "r", "k", "i", "n", "g",
       "?">> >>

\* C10: split_sentences breaks the text at every run of whitespace that
\* immediately follows '.', '?' or '!', keeps the punctuation on the piece
\* before, consumes the whitespace, and discards every empty or
\* whitespace-only piece, in order; "Hello world. This is a test! Is it
\* working?" yields exactly its three sentences.
C10_SplitAtSentenceEnds ==
    ret # None =>
        LET text == call[1].text
            pieces == ret[1]
        IN /\ \A n \in 1..Len(pieces) :
                /\ \E j \in 1..Len(pieces[n]) : ~White(pieces[n][j])
                /\ n < Len(pieces) => EndsSentence(pieces[n][Len(pieces[n])])
                /\ n > 1 => ~White(pieces[n][1])
                /\ \A j \in 1..(Len(pieces[n]) - 1) :
                     ~(EndsSentence(pieces[n][j]) /\ White(pieces[n][j + 1]))
           /\ IF \A i \in 1..Len(text) : White(text[i])
              THEN pieces = <<>>
              ELSE Flatten(pieces) = WithoutBreaks(text)
           /\ text = HelloText => pieces = HelloSentences

C10_Witness ==
    /\ ret # None
    /\ call[1].fn = "split_sentences"
    /\ call[1].text = HelloText
    /\ Len(ret[1]) = 3
    /\ ret[1][2] = HelloSentences[2]

----------------------------------------------------------------------------
(* Properties of the run (Spec) *)

\* the exceptions of the collaborators: configuration file, document reader,
\* text encoder, file system
ExternalFailures ==
    {"load_config", "encode_query", "document_reader", "encode_sections",
     "encode_sentences", "write_output"}

WellFormed(o) ==
    /\ DOMAIN o = {"metadata", "extracted_sections"}
    /\ DOMAIN o.metadata = {"documents", "persona", "job_to_be_done", "timestamp"}
    /\ o.metadata.documents = docs
    /\ o.metadata.persona = persona
    /\ o.metadata.job_to_be_done = job
    /\ \E now \in Clock : o.metadata.timestamp = now \o "Z"

\* C2: when the section-level candidate list is empty (no documents listed,
\* every listed file missing, or every page blank), the run does not abort:
\* it runs to completion and writes a well-formed artifact whose
\* extracted_sections is empty.
C2_EmptyCandidatesComplete ==
    (all_secs = <<>> /\ pc \notin {"load", "encode_query", "extract"}) =>
        /\ pc = "aborted" => raised \in ExternalFailures
        /\ pc = "done" =>
             /\ output # None
             /\ WellFormed(output[1])
             /\ output[1].extracted_sections = <<>>

\* C3: in every output artifact the importance_rank values of
\* extracted_sections, in list order, are 1, 2, ..., len(extracted_sections).
C3_DenseRanks ==
    output # None =>
        \A i \in 1..Len(output[1].extracted_sections) :
            output[1].extracted_sections[i].importance_rank = i

C3_Witness ==
    /\ output # None
    /\ Len(output[1].extracted_sections) >= 2
    /\ output[1].extracted_sections[2].importance_rank = 2
    /\ ranked[1] > ranked[2]

\* C5: for every requested count K <= 0 the ranking is empty: no section is
\* selected when top-sections <= 0, and every sub_section_analysis is empty
\* when top-sentences <= 0.
C5_NonPositiveCountSelectsNothing ==
    /\ (args.top_sections <= 0 /\ pc \in {"rank_sentences", "done"}) =>
          /\ ranked = <<>>
          /\ out_secs = <<>>
    /\ args.top_sentences <= 0 =>
          \A i \in 1..Len(out_secs) : out_secs[i].sub_section_analysis = <<>>

\* C7: each entry of a section's sub_section_analysis has a refined_text that
\* is one of the sentences of that section's own text and the section's
\* page_number; the entries are those of the selected sections, so no
\* sentence of a section that was not selected is in the output.
C7_SentencesOfOwnSection ==
    /\ Len(out_secs) <= Len(ranked)
    /\ \A i \in 1..Len(out_secs) :
         LET sec == all_secs[ranked[i] + 1]
             e == out_secs[i]
         IN /\ e.document = sec.document
            /\ e.page_number = sec.page
            /\ e.section_title = sec.title
            /\ \A n \in 1..Len(e.sub_section_analysis) :
                 /\ e.sub_section_analysis[n].refined_text
                       \in Range(split_sentences(sec.text))
                 /\ e.sub_section_analysis[n].page_number = sec.page
    /\ output # None => output[1].extracted_sections = out_secs

C7_Witness ==
    /\ output # None
    /\ Len(all_secs) = 2
    /\ all_secs[1].text = TextAB
    /\ all_secs[2].text = <<"c", "!">>
    /\ ranked = <<1>>
    /\ Len(output[1].extracted_sections) = 1
    /\ Len(output[1].extracted_sections[1].sub_section_analysis) = 1
    /\ output[1].extracted_sections[1].sub_section_analysis[1].refined_text
          = <<"c", "!">>
    /\ output[1].extracted_sections[1].page_number = 2

\* C8: if the document reader or the text encoder fails at any step (query
\* encoding, extraction, section encoding, sentence encoding of any selected
\* section), the run aborts and no output artifact is written: the artifact
\* exists only after every ranking step of every selected section is done.
C8_NoOutputUnlessComplete ==
    /\ pc = "aborted" <=> raised # "none"
    /\ pc = "aborted" => output = None
    /\ output # None =>
          /\ pc = "done"
          /\ q_emb # None
          /\ doc_i = Len(docs)
          /\ Len(out_secs) = Len(ranked)
          /\ output[1].extracted_sections = out_secs

C8_Witness ==
    /\ pc = "aborted"
    /\ raised = "encode_sentences"
    /\ Len(ranked) = 2
    /\ Len(out_secs) = 1
    /\ output = None

MissingField == cfg # None /\ DOMAIN cfg[1] # CfgKeys

\* C9: a run configuration missing a required field (documents, persona or
\* job) is reported as a configuration error at load time, before any query
\* encoding, extraction or ranking, and no output artifact is produced.
C9_MissingFieldRejected ==
    MissingField =>
        /\ pc = "aborted" /\ raised = "load_config"
        /\ q_emb = None
        /\ output = None

\* C9 as amended: a run configuration missing documents, persona or job is no
\* error: load_config returns it, the missing field reads as its default
\* (documents [], persona "", job ""), the query is "{persona}. {job}" of
\* those values, the run goes on to query encoding, and an artifact that is
\* written carries the defaults in its metadata.
C9_MissingFieldDefaults ==
    /\ raised = "load_config" => cfg = None
    /\ cfg # None =>
          LET c == cfg[1]
          IN /\ pc # "load"
             /\ docs = (IF "documents" \in DOMAIN c THEN c["documents"] ELSE <<>>)
             /\ persona = (IF "persona" \in DOMAIN c THEN c["persona"] ELSE "")
             /\ job = (IF "job" \in DOMAIN c THEN c["job"] ELSE "")
             /\ query = persona \o ". " \o job
             /\ q_emb # None => q_emb[1] = query
             /\ output # None => WellFormed(output[1])

C9_Witness ==
    /\ MissingField
    /\ "persona" \notin DOMAIN cfg[1]
    /\ "job" \in DOMAIN cfg[1]
    /\ query = ". Summarize risks"
    /\ output # None
    /\ output[1].metadata.persona = ""
    /\ Len(output[1].extracted_sections) >= 1

====
